---- MODULE Spec2Model ----
(***************************************************************************)
(* A model of pytfa's LumpGEM (pytfa/lumpgem/lumpgem.py) and of the        *)
(* prefix-enforcing metaclass (pytfa/optim/meta.py).                       *)
(*                                                                         *)
(* A reaction object is identified by its id (ids are unique in a cobra    *)
(* model).  The optimisation problem of the ThermoModel is the bag of      *)
(* constraints `cons`, the set of registered variables `variables`, the    *)
(* objective, the reactions' thermo flags and the converted formulation.   *)
(* Every statement of a method is one step; `pc` is the position of the    *)
(* single thread of control, so a method always runs to its exit (return   *)
(* or raise) before another one starts.                                    *)
(***************************************************************************)
EXTENDS Integers, Sequences, FiniteSets, Bags, TLC

\* ------------------------------------------------------------------ bounds
MaxRxns == 2
MaxCalls == 2
MaxClasses == 2

\* ------------------------------------------------------------ input values
RxnIds == 1..MaxRxns
Mets == 1..(MaxRxns + 1)
Subsystems == {"glycolysis", "transport"}
CarbonUptakes == {10}
GrowthRates == {1}
FluxVals == {0, 2}
ClassNames == 1..MaxClasses
Metaclasses == {"RequirePrefixMeta", "ABCRequirePrefixMeta"}
\* paths, as sequences of characters: m.mat m.yml m.json m.xml m.txt m.JSON xml
Paths == { <<"m", ".", "m", "a", "t">>, <<"m", ".", "y", "m", "l">>,
           <<"m", ".", "j", "s", "o", "n">>, <<"m", ".", "x", "m", "l">>,
           <<"m", ".", "t", "x", "t">>, <<"m", ".", "J", "S", "O", "N">>,
           <<"x", "m", "l">> }
\* the attributes a BinaryVariable offers: the code reads .variable (line
\* 131) and .Variable (line 170)
BinaryVariableAttrs == { {"variable"}, {"variable", "Variable"} }
AttrNames == {"prefix", "__doc__"}
AttrValues == {"NotImplemented", "LC_"}

VARIABLES
    args,        \* the constructor's arguments and what they stand for
    path_to_model,  \* the path argument, until _load_model has used it
    pc,          \* position of the thread of control
    i,           \* index of the classification loop over model.reactions
    todo,        \* keys of _bin_vars the constraint loop has not visited yet
    defined,     \* names of the instance attributes that have been assigned
    rBBB, rcore, mcore, rncore,
    C_uptake, growth_rate,
    bin_vars,    \* _bin_vars: Non-core reaction -> its BinaryVariable
    variables,   \* variables registered in the problem
    cons,        \* constraints registered in the problem (a bag)
    objective,   \* the problem's objective
    thermo,      \* reaction -> thermo['computed'], for reactions with thermo
    converted,   \* reactions whose thermodynamic constraints convert() built
    op,          \* the public method being executed, with its argument
    solution,    \* the solution the last solve returned
    result,      \* the value lump_reaction returned last
    exit,        \* how the last method ended: "returned" or "raised"
    calls,       \* number of public calls made so far
    seen,        \* the problem the solver saw in the call being repeated
    ro_trace,    \* steps the current run_optimisation call has performed
    ro_cons0,    \* the constraints at entry of the current run_optimisation
    ro_thermo0,  \* the thermo flags as prepare() left them in this call
    lastret,     \* the normal return of lump_reaction that ended the last call
    prevret,     \* in lump_reaction(b): lastret of the call right before, if for b
    classes,     \* classes created under the metaclass: name -> bases, attrs
    attempt      \* the last class creation attempted, with its outcome

lvars == <<args, path_to_model, pc, i, todo, defined, rBBB, rcore, mcore, rncore, C_uptake,
           growth_rate, bin_vars, variables, cons, objective, thermo,
           converted, op, solution, result, exit, calls, seen, ro_trace,
           ro_cons0, ro_thermo0, lastret, prevret>>
mvars == <<classes, attempt>>
vars == <<lvars, mvars>>

\* ------------------------------------------------------------ the model data
\* model.reactions: an ordered list of reactions with unique ids.
Models ==
    UNION { { [k \in 1..n |-> [id |-> k, subsystem |-> s[k]]] :
                s \in [1..n -> Subsystems] } : n \in 0..MaxRxns }

ModelIds(reactions) == { reactions[k].id : k \in 1..Len(reactions) }

\* rxn.metabolites: reaction r turns metabolite r into metabolite r + 1.
Stoichiometry(r) ==
    [m \in Mets |-> IF m = r THEN -1 ELSE IF m = r + 1 THEN 1 ELSE 0]

Metabolites(r) == { m \in Mets : Stoichiometry(r)[m] # 0 }

\* -------------------------------------------------------------- partitioning
\* The branch of the classification loop a reaction takes.
Category(rxn, biomass_rxns, core_subsystems) ==
    IF rxn.id \in biomass_rxns THEN "BBB"
    ELSE IF rxn.subsystem \in core_subsystems THEN "core"
    ELSE "ncore"

\* ------------------------------------------------- variables and constraints
\* BinaryVariable(rxn.id, model): named from the reaction id.
BinaryVariable(r) == [prefix |-> "BinaryVariable", id |-> r]

\* problem.Constraint(forward + reverse + C * var, ub = C)
CouplingConstraint_UnitCoefficient(r, var, C) ==
    [kind |-> "coupling", rxn |-> r, ind |-> var.id, ind_coef |-> 1,
     has_lb |-> FALSE, lb |-> 0, has_ub |-> TRUE, ub |-> C]
CouplingConstraint(r, var, C) ==
    [kind |-> "coupling", rxn |-> r, ind |-> var.id, ind_coef |-> C,
     has_lb |-> FALSE, lb |-> 0, has_ub |-> TRUE, ub |-> C]

\* problem.Constraint(bio_rxn.flux_expression, lb = growth_rate)
GrowthConstraint(b, g) ==
    [kind |-> "growth", rxn |-> b, ind |-> 0, ind_coef |-> 0,
     has_lb |-> TRUE, lb |-> g, has_ub |-> FALSE, ub |-> 0]

\* symbol_sum(_bin_vars.values()), direction = 'max'
IndicatorObjective(bv) ==
    [direction |-> "max", terms |-> { bv[r] : r \in DOMAIN bv }]

DefaultObjective == [direction |-> "model", terms |-> {}]

RECURSIVE SumCopies(_, _)
SumCopies(B, S) ==
    IF S = {} THEN 0
    ELSE LET c == CHOOSE x \in S : TRUE
         IN  CopiesIn(c, B) + SumCopies(B, S \ {c})

OfKind(B, k) == { c \in BagToSet(B) : c.kind = k }
GrowthCount(B) == SumCopies(B, OfKind(B, "growth"))
CouplingCount(B) == SumCopies(B, OfKind(B, "coupling"))

\* -------------------------------------------------------------- the solver
NoFluxes == [r \in {} |-> 0]
\* optimize() raises
Failure == [status |-> "error", fluxes |-> NoFluxes, primal |-> NoFluxes]
\* optimize() returns a solution that is not optimal and carries no value
Infeasible == [status |-> "infeasible", fluxes |-> NoFluxes, primal |-> NoFluxes]

\* What a solve can answer: a failure (raised, or returned as a solution
\* without values), or a flux for some of the reactions and a primal value
\* for every registered indicator.
Outcomes(ids, vs) ==
    {Failure, Infeasible} \cup
    { [status |-> "optimal", fluxes |-> f, primal |-> p] :
        f \in UNION { [D -> FluxVals] : D \in SUBSET ids },
        p \in [{ v.id : v \in vs } -> {0, 1}] }

\* The problem as the solver sees it.
Snapshot == [cons |-> cons, variables |-> variables, objective |-> objective,
             thermo |-> thermo, converted |-> converted]

NotSeen == [valid |-> FALSE, snap |-> 0, outcome |-> Failure]
NoReturn == [valid |-> FALSE, b |-> 0, value |-> 0]

\* ------------------------------------------------------------ the aggregate
ZeroSt == [m \in Mets |-> 0]
\* numpy's sum of an empty list is the float 0.0
Float0 == [kind |-> "float", st |-> ZeroSt]

\* rxn * coefficient: a copy of the reaction with scaled stoichiometry
Mul(r, c) == [kind |-> "reaction", st |-> [m \in Mets |-> Stoichiometry(r)[m] * c]]

\* Reaction.__add__ / __radd__ (adding 0 returns a copy), float + float
Add(x, y) ==
    IF x.kind = "float" /\ y.kind = "float" THEN Float0
    ELSE [kind |-> "reaction", st |-> [m \in Mets |-> x.st[m] + y.st[m]]]

\* numpy.sum over a list given as a function from a finite index set
RECURSIVE NpSum(_, _)
NpSum(f, S) ==
    IF S = {} THEN Float0
    ELSE LET r == CHOOSE x \in S : TRUE
         IN  IF S = {r} THEN f[r] ELSE Add(f[r], NpSum(f, S \ {r}))

\* solution.fluxes.get(rxn.id): the flux, or None when there is no entry
HasFlux(sol, r) == r \in DOMAIN sol.fluxes

\* the primal value of a reaction's indicator variable in the solution
Primal(sol, var) == sol.primal[var.id]

CoreTerm(sol, r) == Mul(r, sol.fluxes[r])
NonCoreTerm(sol, r) == Mul(r, sol.fluxes[r] * Primal(sol, bin_vars[r]))

LumpedCore(sol, core) == NpSum([r \in core |-> CoreTerm(sol, r)], core)
LumpedNonCore(sol, ncore) == NpSum([r \in ncore |-> NonCoreTerm(sol, r)], ncore)
LumpedReaction(sol, core, ncore) ==
    Add(LumpedCore(sol, core), LumpedNonCore(sol, ncore))

\* Multiplying a reaction by None raises TypeError (lines 169, 170).
MissingFlux(sol, core, ncore) ==
    \E r \in core \cup ncore : ~HasFlux(sol, r)

\* self._bin_vars[rxn].Variable raises AttributeError when a BinaryVariable
\* has no attribute of that name (line 170, evaluated once the core list is
\* built and the reaction's flux product has succeeded).
MissingAttribute(sol, core, ncore, attrs) ==
    /\ \A r \in core : HasFlux(sol, r)
    /\ \E r \in ncore : HasFlux(sol, r)
    /\ "Variable" \notin attrs

AggregateRaises(sol, core, ncore, attrs) ==
    MissingFlux(sol, core, ncore) \/ MissingAttribute(sol, core, ncore, attrs)

\* -------------------------------------------------------------------- Init
NoOp == [name |-> "none", bio_rxn |-> 0]
NoAttempt == [name |-> 0, meta |-> "none", bases |-> {}, attrs |-> [a \in {} |-> ""],
              outcome |-> "none"]

MetaIdle ==
    /\ classes = [c \in {} |-> 0]
    /\ attempt = NoAttempt

Fresh ==
    /\ pc = "new"
    /\ i = 0
    /\ todo = {}
    /\ defined = {}
    /\ rBBB = {} /\ rcore = {} /\ mcore = {} /\ rncore = {}
    /\ C_uptake = 0 /\ growth_rate = 0
    /\ bin_vars = [r \in {} |-> 0]
    /\ variables = {}
    /\ cons = EmptyBag
    /\ objective = DefaultObjective
    /\ thermo = [r \in {} |-> FALSE]
    /\ converted = {}
    /\ op = NoOp
    /\ solution = Failure
    /\ result = Float0
    /\ exit = "none"
    /\ calls = 0
    /\ seen = NotSeen
    /\ ro_trace = <<>>
    /\ ro_cons0 = EmptyBag
    /\ ro_thermo0 = [r \in {} |-> FALSE]
    /\ lastret = NoReturn
    /\ prevret = NoReturn

Init ==
    /\ args \in [reactions : Models,
                 biomass_rxns : SUBSET RxnIds,
                 core_subsystems : SUBSET Subsystems,
                 carbon_uptake : CarbonUptakes,
                 growth_rate : GrowthRates,
                 thermo_data : SUBSET RxnIds,
                 bv_attrs : BinaryVariableAttrs]
    /\ args.thermo_data \in {{}, ModelIds(args.reactions)}
    /\ path_to_model \in Paths
    /\ Fresh
    /\ MetaIdle


\* ------------------------------------------------------- LumpGEM.__init__
UnchangedProblem == UNCHANGED <<variables, cons, objective, thermo, converted>>
UnchangedPartition == UNCHANGED <<rBBB, rcore, mcore, rncore>>
UnchangedRun == UNCHANGED <<op, solution, result, exit, calls, seen,
                            ro_trace, ro_cons0, ro_thermo0, lastret, prevret>>

\* path[-n:]: the last n characters, the whole path when it is shorter
Suffix(path, n) ==
    SubSeq(path, IF Len(path) > n THEN Len(path) - n + 1 ELSE 1, Len(path))

\* _load_model: the loader chosen by the suffix, None when no suffix matches
LoaderOf(path) ==
    IF Suffix(path, 4) = <<".", "m", "a", "t">> THEN "import_matlab_model"
    ELSE IF Suffix(path, 4) = <<".", "y", "m", "l">> THEN "load_yaml_model"
    ELSE IF Suffix(path, 5) = <<".", "j", "s", "o", "n">> THEN "load_json_model"
    ELSE IF Suffix(path, 4) = <<".", "x", "m", "l">> THEN "read_sbml_model"
    ELSE "None"

\* Lines 44-53: load the model, build the thermo model, create the empty
\* _rcore, _mcore and _rncore.  No statement assigns _rBBB.  When
\* _load_model returned None the constructor raises before it classifies
\* anything: inside ThermoModel at line 46, with no attribute assigned, or,
\* when ThermoModel accepts None, at model.reactions on line 56, with the
\* attributes of lines 46-53 assigned.
CtorBegin ==
    /\ pc = "new"
    /\ IF LoaderOf(path_to_model) = "None"
          THEN /\ pc' = "load_raised"
               /\ exit' = "raised"
               /\ defined' \in {{}, {"_tfa_model", "_rcore", "_mcore", "_rncore"}}
               /\ UNCHANGED <<path_to_model, i>>
          ELSE /\ defined' = {"_tfa_model", "_rcore", "_mcore", "_rncore"}
               /\ i' = 1
               /\ pc' = "classify"
               /\ path_to_model' = <<>>
               /\ UNCHANGED exit
    /\ UNCHANGED <<args, todo, C_uptake, growth_rate, bin_vars, mvars,
                   op, solution, result, calls, seen, ro_trace, ro_cons0,
                   ro_thermo0, lastret, prevret>>
    /\ UnchangedPartition /\ UnchangedProblem

\* Lines 56-67: one iteration of the classification loop.  Reading an
\* attribute that was never assigned raises AttributeError.
Classify ==
    /\ pc = "classify"
    /\ i <= Len(args.reactions)
    /\ LET rxn == args.reactions[i]
           cat == Category(rxn, args.biomass_rxns, args.core_subsystems)
       IN  \/ /\ cat = "BBB"
              /\ "_rBBB" \in defined
              /\ rBBB' = rBBB \cup {rxn.id}
              /\ i' = i + 1
              /\ UNCHANGED <<pc, exit, rcore, mcore, rncore>>
           \/ /\ cat = "BBB"
              /\ "_rBBB" \notin defined
              /\ pc' = "ctor_raised"
              /\ exit' = "raised"
              /\ UNCHANGED <<i, rBBB, rcore, mcore, rncore>>
           \/ /\ cat = "core"
              /\ rcore' = rcore \cup {rxn.id}
              /\ mcore' = mcore \cup Metabolites(rxn.id)
              /\ i' = i + 1
              /\ UNCHANGED <<pc, exit, rBBB, rncore>>
           \/ /\ cat = "ncore"
              /\ rncore' = rncore \cup {rxn.id}
              /\ i' = i + 1
              /\ UNCHANGED <<pc, exit, rBBB, rcore, mcore>>
    /\ UNCHANGED <<args, path_to_model, todo, defined, C_uptake, growth_rate, bin_vars, mvars,
                   op, solution, result, calls, seen, ro_trace, ro_cons0,
                   ro_thermo0, lastret, prevret>>
    /\ UnchangedProblem

\* Lines 69-75: the loop is over; keep the carbon uptake and the growth rate.
CtorAttrs ==
    /\ pc = "classify"
    /\ i > Len(args.reactions)
    /\ C_uptake' = args.carbon_uptake
    /\ growth_rate' = args.growth_rate
    /\ defined' = defined \cup {"_C_uptake", "_growth_rate", "_solver"}
    /\ pc' = "gen_vars"
    /\ UNCHANGED <<args, path_to_model, i, todo, bin_vars, mvars>>
    /\ UnchangedPartition /\ UnchangedProblem /\ UnchangedRun

\* Lines 114-118: {rxn: BinaryVariable(rxn.id, model) for rxn in _rncore}
GeneratedBinaryVariables_OverCore(ncore) == [r \in rcore |-> BinaryVariable(r)]
GeneratedBinaryVariables(ncore) == [r \in ncore |-> BinaryVariable(r)]

\* Lines 77, 114-118: one BinaryVariable per Non-core reaction, kept in
\* _bin_vars.  A BinaryVariable may register itself in the problem when it
\* is created; in any case the problem gets it with its constraint (line
\* 131).
GenerateBinaryVariables ==
    /\ pc = "gen_vars"
    /\ bin_vars' = GeneratedBinaryVariables(rncore)
    /\ \E registers \in BOOLEAN :
          variables' = IF registers
                       THEN variables \cup { bin_vars'[r] : r \in DOMAIN bin_vars' }
                       ELSE variables
    /\ defined' = defined \cup {"_bin_vars"}
    /\ todo' = DOMAIN bin_vars'
    /\ pc' = "gen_cons"
    /\ UNCHANGED <<args, path_to_model, i, C_uptake, growth_rate, mvars,
                   cons, objective, thermo, converted>>
    /\ UnchangedPartition /\ UnchangedRun

\* Lines 125-131: one iteration of the loop over _bin_vars.keys():
\* add_cons_vars([var.variable, constraint]).
GenerateConstraint ==
    /\ pc = "gen_cons"
    /\ \E r \in todo :
          /\ cons' = cons (+) SetToBag({CouplingConstraint(r, bin_vars[r], C_uptake)})
          /\ variables' = variables \cup {bin_vars[r]}
          /\ todo' = todo \ {r}
    /\ UNCHANGED <<args, path_to_model, pc, i, defined, C_uptake, growth_rate, bin_vars, mvars,
                   objective, thermo, converted>>
    /\ UnchangedPartition /\ UnchangedRun

\* Lines 79, 133-140: the objective, once the constraint loop is over.
GenerateObjective ==
    /\ pc = "gen_cons"
    /\ todo = {}
    /\ objective' = IndicatorObjective(bin_vars)
    /\ pc' = "idle"
    /\ UNCHANGED <<args, path_to_model, i, todo, defined, C_uptake, growth_rate, bin_vars, mvars,
                   variables, cons, thermo, converted>>
    /\ UnchangedPartition /\ UnchangedRun

\* ------------------------------------------------------ run_optimisation
UnchangedInstance == UNCHANGED <<args, path_to_model, i, todo, defined, rBBB, rcore, mcore,
                                 rncore, C_uptake, growth_rate, bin_vars, mvars>>

\* A caller invokes run_optimisation() on the constructed instance.
CallRunOptimisation ==
    /\ pc = "idle"
    /\ calls < MaxCalls
    /\ calls' = calls + 1
    /\ op' = [name |-> "run_optimisation", bio_rxn |-> 0]
    /\ ro_trace' = <<>>
    /\ ro_cons0' = cons
    /\ lastret' = NoReturn
    /\ prevret' = NoReturn
    /\ seen' = NotSeen
    /\ solution' = Failure
    /\ result' = Float0
    /\ pc' = "prepare"
    /\ UNCHANGED <<exit, ro_thermo0>>
    /\ UnchangedInstance /\ UnchangedProblem

\* Line 143, prepare(): every reaction gets its thermo record; 'computed'
\* tells whether the thermodynamic data covers the reaction.
PreparedThermo(reactions, thermo_data) ==
    [r \in ModelIds(reactions) |-> r \in thermo_data]

Prepare ==
    /\ pc = "prepare"
    /\ thermo' = PreparedThermo(args.reactions, args.thermo_data)
    /\ ro_thermo0' = thermo'
    /\ ro_trace' = Append(ro_trace, "prepare")
    /\ pc' = "flags"
    /\ UNCHANGED <<variables, cons, objective, converted, op, solution, result,
                   exit, calls, seen, ro_cons0, lastret, prevret>>
    /\ UnchangedInstance

\* Lines 146-147: ncrxn.thermo['computed'] = False for ncrxn in _rncore
DeactivateNonCore_All(th, ncore) == [r \in DOMAIN th |-> FALSE]
DeactivateNonCore(th, ncore) ==
    [r \in DOMAIN th |-> IF r \in ncore THEN FALSE ELSE th[r]]

Flags ==
    /\ pc = "flags"
    /\ rncore \subseteq DOMAIN thermo
    /\ thermo' = DeactivateNonCore(thermo, rncore)
    /\ ro_trace' = Append(ro_trace, "flags")
    /\ pc' = "convert"
    /\ UNCHANGED <<variables, cons, objective, converted, op, solution, result,
                   exit, calls, seen, ro_cons0, ro_thermo0, lastret, prevret>>
    /\ UnchangedInstance

\* convert(): the thermodynamic constraints of the reactions whose thermo is
\* computed, built anew.
ConvertedThermo(th) == { r \in DOMAIN th : th[r] }

\* Line 149: convert the formulation.
Convert ==
    /\ pc = "convert"
    /\ converted' = ConvertedThermo(thermo)
    /\ ro_trace' = Append(ro_trace, "convert")
    /\ pc' = "solve"
    /\ UNCHANGED <<variables, cons, objective, thermo, op, solution, result,
                   exit, calls, seen, ro_cons0, ro_thermo0, lastret, prevret>>
    /\ UnchangedInstance

\* The solver is deterministic: the problem it has just seen gets the same
\* answer again; any other problem gets any answer.
Answers ==
    IF seen.valid /\ seen.snap = Snapshot THEN {seen.outcome}
    ELSE Outcomes(ModelIds(args.reactions), variables)

\* Lines 151-152, optimize() returns a solution (optimal or not): return it
\* to the caller.
SolveReturns ==
    /\ pc = "solve"
    /\ \E o \in Answers :
          /\ o.status # "error"
          /\ solution' = o
          /\ seen' = [valid |-> TRUE, snap |-> Snapshot, outcome |-> o]
    /\ ro_trace' = Append(ro_trace, "solve")
    /\ IF op.name = "lump_reaction"
          THEN /\ pc' = "aggregate"
               /\ UNCHANGED <<exit, lastret, prevret>>
          ELSE /\ pc' = "idle"
               /\ exit' = "returned"
               /\ lastret' = NoReturn
               /\ prevret' = NoReturn
    /\ UNCHANGED <<result, calls, op, ro_cons0, ro_thermo0>>
    /\ UnchangedInstance /\ UnchangedProblem

\* Line 151, optimize() raises: the failure propagates through
\* run_optimisation and through lump_reaction to the caller.
SolveFails ==
    /\ pc = "solve"
    /\ \E o \in Answers :
          /\ o.status = "error"
          /\ seen' = [valid |-> TRUE, snap |-> Snapshot, outcome |-> o]
    /\ ro_trace' = Append(ro_trace, "solve")
    /\ pc' = "idle"
    /\ exit' = "raised"
    /\ lastret' = NoReturn
    /\ prevret' = NoReturn
    /\ UNCHANGED <<solution, result, calls, op, ro_cons0, ro_thermo0>>
    /\ UnchangedInstance /\ UnchangedProblem

\* ---------------------------------------------------------- lump_reaction
\* lump_reaction(b) is called right after lump_reaction(b) returned.
Repeats(b) == lastret.valid /\ lastret.b = b

\* Lines 161-165: build the growth constraint, register it, and enter
\* run_optimisation.  The solver's last answer is remembered only while the
\* same call is repeated; to any other problem it may answer anything.
LumpAddConstraint ==
    /\ pc = "idle"
    /\ calls < MaxCalls
    /\ \E b \in ModelIds(args.reactions) :
          /\ op' = [name |-> "lump_reaction", bio_rxn |-> b]
          /\ cons' = cons (+) SetToBag({GrowthConstraint(b, growth_rate)})
          /\ prevret' = IF Repeats(b) THEN lastret ELSE NoReturn
          /\ seen' = IF Repeats(b) THEN seen ELSE NotSeen
    /\ lastret' = NoReturn
    /\ solution' = Failure
    /\ result' = Float0
    /\ calls' = calls + 1
    /\ ro_trace' = <<>>
    /\ ro_cons0' = cons'
    /\ pc' = "prepare"
    /\ UNCHANGED <<variables, objective, thermo, converted, exit, ro_thermo0>>
    /\ UnchangedInstance

\* Lines 169-172: the flux-weighted sums.  A reaction without a flux entry
\* makes the product raise, and the exception leaves lump_reaction.
LumpAggregate ==
    /\ pc = "aggregate"
    /\ IF AggregateRaises(solution, rcore, rncore, args.bv_attrs)
          THEN /\ pc' = "idle"
               /\ exit' = "raised"
               /\ lastret' = NoReturn
               /\ prevret' = NoReturn
               /\ UNCHANGED result
          ELSE /\ result' = LumpedReaction(solution, rcore, rncore)
               /\ pc' = "remove"
               /\ UNCHANGED <<exit, lastret, prevret>>
    /\ UNCHANGED <<op, solution, calls, seen, ro_trace, ro_cons0, ro_thermo0>>
    /\ UnchangedInstance /\ UnchangedProblem

\* remove_cons_vars(constraint): one registered copy of it leaves the problem
RemoveConsVars_Keeps(B, c) == B
RemoveConsVars(B, c) == B (-) SetToBag({c})

\* Lines 175-177: remove the growth constraint and return.
LumpRemoveAndReturn ==
    /\ pc = "remove"
    /\ cons' = RemoveConsVars(cons, GrowthConstraint(op.bio_rxn, growth_rate))
    /\ pc' = "idle"
    /\ exit' = "returned"
    /\ lastret' = [valid |-> TRUE, b |-> op.bio_rxn, value |-> result]
    /\ UNCHANGED <<variables, objective, thermo, converted, op, solution, result,
                   calls, seen, ro_trace, ro_cons0, ro_thermo0, prevret>>
    /\ UnchangedInstance

Next ==
    \/ CtorBegin
    \/ Classify
    \/ CtorAttrs
    \/ GenerateBinaryVariables
    \/ GenerateConstraint
    \/ GenerateObjective
    \/ CallRunOptimisation
    \/ Prepare
    \/ Flags
    \/ Convert
    \/ SolveReturns
    \/ SolveFails
    \/ LumpAddConstraint
    \/ LumpAggregate
    \/ LumpRemoveAndReturn

Spec == Init /\ [][Next]_vars


\* ------------------------------------------------ RequirePrefixMeta (meta.py)
\* The method resolution order of a metaclass, and the first class in it that
\* defines __init__ (ABCMeta defines none).
Mro(meta) ==
    IF meta = "ABCRequirePrefixMeta"
    THEN <<"ABCRequirePrefixMeta", "ABCMeta", "RequirePrefixMeta", "type">>
    ELSE <<"RequirePrefixMeta", "type">>

DefinesInit(c) == c \in {"RequirePrefixMeta", "type"}

ResolvedInit(meta) ==
    LET m == Mro(meta)
        k == CHOOSE j \in 1..Len(m) :
                 DefinesInit(m[j]) /\ \A h \in 1..(j - 1) : ~DefinesInit(m[h])
    IN  m[k]

\* attrs.get('prefix', NotImplemented)
GetPrefix(attrs) ==
    IF "prefix" \in DOMAIN attrs THEN attrs["prefix"] ELSE "NotImplemented"

\* RequirePrefixMeta.__init__(cls, name, bases, attrs): "ok" when it returns,
\* the exception's name when it raises.
RequirePrefixMetaInit_NoBaseSkip(bases, attrs) ==
    IF GetPrefix(attrs) = "NotImplemented" THEN "NotImplementedError" ELSE "ok"
RequirePrefixMetaInit(bases, attrs) ==
    IF bases = {} THEN "ok"
    ELSE IF GetPrefix(attrs) = "NotImplemented" THEN "NotImplementedError"
    ELSE "ok"

MetaInit(meta, bases, attrs) ==
    IF ResolvedInit(meta) = "RequirePrefixMeta"
    THEN RequirePrefixMetaInit(bases, attrs)
    ELSE "ok"

AttrDicts == UNION { [D -> AttrValues] : D \in SUBSET AttrNames }

\* A class statement under one of the two metaclasses.  A class built on
\* bases gets the most derived metaclass among its own and its bases'.
CreateClass ==
    \E name \in ClassNames \ DOMAIN classes, m \in Metaclasses,
       bases \in SUBSET DOMAIN classes, attrs \in AttrDicts :
        LET metas == {m} \cup { classes[b].meta : b \in bases }
            meta == IF "ABCRequirePrefixMeta" \in metas
                    THEN "ABCRequirePrefixMeta" ELSE "RequirePrefixMeta"
            out == MetaInit(meta, bases, attrs)
        IN  /\ attempt' = [name |-> name, meta |-> meta, bases |-> bases,
                           attrs |-> attrs, outcome |-> out]
            /\ classes' = IF out = "ok"
                          THEN classes @@ (name :> [meta |-> meta, bases |-> bases,
                                                    attrs |-> attrs])
                          ELSE classes
            /\ UNCHANGED lvars

InitMeta ==
    /\ args = [reactions |-> <<>>, biomass_rxns |-> {}, core_subsystems |-> {},
               carbon_uptake |-> 10, growth_rate |-> 1, thermo_data |-> {},
               bv_attrs |-> {"variable"}]
    /\ path_to_model = <<>>
    /\ Fresh
    /\ MetaIdle

NextMeta == CreateClass

SpecMeta == InitMeta /\ [][NextMeta]_vars


\* =================================================================== claims
Constructed == pc \notin {"new", "classify", "gen_vars", "gen_cons", "ctor_raised",
                           "load_raised"}
Classified == pc \notin {"new", "classify", "ctor_raised", "load_raised"}
AfterLump == pc = "idle" /\ op.name = "lump_reaction"
Ids == ModelIds(args.reactions)
SubsystemOf(r) == (CHOOSE k \in 1..Len(args.reactions) : args.reactions[k].id = r)
NonCoreOfArgs ==
    { r \in Ids : r \notin args.biomass_rxns
                  /\ args.reactions[SubsystemOf(r)].subsystem \notin args.core_subsystems }

RECURSIVE SumInt(_, _)
SumInt(f, S) ==
    IF S = {} THEN 0
    ELSE LET x == CHOOSE y \in S : TRUE IN f[x] + SumInt(f, S \ {x})

\* C1: constructing LumpGEM completes (it does not raise), and once the
\* classification loop is over every reaction of the model is in exactly one
\* of the Biomass, Core and Non-core sets: Biomass when its id is a biomass
\* id, else Core when its subsystem is a core subsystem, else Non-core.
C1_PartitionTotalDisjoint ==
    /\ pc # "ctor_raised"
    /\ Classified =>
         \A k \in 1..Len(args.reactions) :
            LET rxn == args.reactions[k]
                bio == rxn.id \in args.biomass_rxns
                core == rxn.subsystem \in args.core_subsystems
            IN  /\ rxn.id \in rBBB <=> bio
                /\ rxn.id \in rcore <=> (~bio /\ core)
                /\ rxn.id \in rncore <=> (~bio /\ ~core)

\* C2: once lump_reaction has exited by a failure of its solve step, the
\* problem holds no GrowthConstraint.
C2_GrowthRemovedOnSolveFailure ==
    (AfterLump /\ exit = "raised" /\ ro_trace = <<"prepare", "flags", "convert", "solve">>
       /\ seen.valid /\ seen.outcome.status # "optimal")
        => GrowthCount(cons) = 0

\* C3: over any sequence of lump_reaction calls run one after another, the
\* problem holds at most one GrowthConstraint in every state, and none (only
\* the coupling constraints of the construction) after each call returns.
C3_AtMostOneGrowthConstraint ==
    /\ GrowthCount(cons) <= 1
    /\ (AfterLump /\ exit = "returned") =>
          /\ GrowthCount(cons) = 0
          /\ BagCardinality(cons) = Cardinality(rncore)

\* C4: in lump_reaction a Core or Non-core reaction without a flux value in
\* the returned solution contributes zero, and the call does not fail.
FluxOrZero(sol, r) == IF HasFlux(sol, r) THEN sol.fluxes[r] ELSE 0
LumpedWithDefault(sol, core, ncore) ==
    [m \in Mets |->
        SumInt([r \in core |-> Stoichiometry(r)[m] * FluxOrZero(sol, r)], core)
      + SumInt([r \in ncore |-> Stoichiometry(r)[m] * FluxOrZero(sol, r) * sol.primal[r]],
               ncore)]
C4_MissingFluxCountsAsZero ==
    (AfterLump /\ solution.status = "optimal"
       /\ \E r \in rcore \cup rncore : ~HasFlux(solution, r))
        => /\ exit = "returned"
           /\ lastret.valid
           /\ lastret.value.st = LumpedWithDefault(solution, rcore, rncore)

\* C5: after construction there is exactly one binary indicator variable per
\* Non-core reaction of the constructor's model, one-to-one, none for a Core
\* or Biomass reaction, and it stays so through every later run_optimisation
\* and lump_reaction step.
C5_OneIndicatorPerNonCore ==
    Constructed =>
        /\ rncore = NonCoreOfArgs
        /\ DOMAIN bin_vars = NonCoreOfArgs
        /\ \A r, q \in DOMAIN bin_vars : bin_vars[r] = bin_vars[q] => r = q
        /\ variables = { bin_vars[r] : r \in DOMAIN bin_vars }
        /\ Cardinality(variables) = Cardinality(NonCoreOfArgs)
        /\ \A v \in variables : v.id \notin rcore \cup rBBB
C5_Witness ==
    /\ AfterLump /\ calls >= 2
    /\ rncore # {} /\ rcore # {}

\* C6: lump_reaction returns, for the solution of its solve (a flux for
\* every Core and Non-core reaction), metabolite by metabolite the sum over
\* Core reactions of stoichiometry * flux plus the sum over Non-core
\* reactions of stoichiometry * flux * primal(indicator); with no Non-core
\* reaction that is the Core sum alone.
ExpectedLumped(sol, core, ncore) ==
    [m \in Mets |->
        SumInt([r \in core |-> Stoichiometry(r)[m] * sol.fluxes[r]], core)
      + SumInt([r \in ncore |-> Stoichiometry(r)[m] * sol.fluxes[r] * sol.primal[r]],
               ncore)]
C6_LumpedIsWeightedSum ==
    (AfterLump /\ solution.status = "optimal"
       /\ \A r \in rcore \cup rncore : HasFlux(solution, r)) =>
          /\ exit = "returned"
          /\ lastret.valid
          /\ lastret.value.st = ExpectedLumped(solution, rcore, rncore)

\* C7: lump_reaction(b) called right after lump_reaction(b) returned, with a
\* deterministic solver, returns the same lumped reaction.
C7_RepeatedLumpSameResult ==
    (AfterLump /\ lastret.valid /\ prevret.valid) =>
        /\ lastret.b = prevret.b
        /\ lastret.value = prevret.value
C7_Witness ==
    /\ AfterLump /\ lastret.valid /\ prevret.valid
    /\ lastret.value.st # ZeroSt
    /\ rcore # {}

\* C8: every run_optimisation call performs prepare, the flag reset, convert
\* and solve in this order; the flag reset turns off the flag of every
\* Non-core reaction and of no other; the call leaves the constraints as it
\* found them.
RunSteps == <<"prepare", "flags", "convert", "solve">>
RunDone == pc = "aggregate" \/ (pc = "idle" /\ op.name = "run_optimisation")
C8_RunOrderAndPassThrough ==
    /\ pc \in {"prepare", "flags", "convert", "solve"} =>
          /\ ro_trace = SubSeq(RunSteps, 1, Len(ro_trace))
          /\ Len(ro_trace) < Len(RunSteps)
          /\ RunSteps[Len(ro_trace) + 1] = pc
          /\ cons = ro_cons0
    /\ RunDone =>
          /\ ro_trace = RunSteps
          /\ cons = ro_cons0
          /\ DOMAIN thermo = Ids
          /\ \A r \in Ids : thermo[r] = (r \notin rncore /\ ro_thermo0[r])
          /\ converted = { r \in Ids : r \notin rncore /\ ro_thermo0[r] }
C8_Witness ==
    /\ pc = "aggregate" /\ calls >= 2
    /\ rncore # {}
    /\ \E r \in rcore : thermo[r]
    /\ \E r \in rncore : ro_thermo0[r]

\* C9: after construction with carbon-uptake bound C the problem holds, for
\* each Non-core reaction r of the constructor's model, exactly one coupling
\* constraint forward(r) + reverse(r) + C * indicator(r) <= C and no other
\* coupling constraint; r's indicator is registered whenever r's constraint
\* is, and only indicators of _bin_vars are; the objective is set only when all of them exist; no later step of
\* lump_reaction or run_optimisation changes any of this.
CouplingOf(r) ==
    [kind |-> "coupling", rxn |-> r, ind |-> r, ind_coef |-> args.carbon_uptake,
     has_lb |-> FALSE, lb |-> 0, has_ub |-> TRUE, ub |-> args.carbon_uptake]
C9_CouplingConstraints ==
    /\ \A c \in OfKind(cons, "coupling") : BinaryVariable(c.ind) \in variables
    /\ variables \subseteq { bin_vars[r] : r \in DOMAIN bin_vars }
    /\ (objective # DefaultObjective \/ Constructed) =>
          /\ OfKind(cons, "coupling") = { CouplingOf(r) : r \in NonCoreOfArgs }
          /\ \A r \in NonCoreOfArgs : CopiesIn(CouplingOf(r), cons) = 1
    /\ Constructed =>
          objective = [direction |-> "max",
                       terms |-> { BinaryVariable(r) : r \in NonCoreOfArgs }]
C9_Witness ==
    /\ AfterLump /\ calls >= 2
    /\ Cardinality(rncore) >= 2

\* C10 as stated: with at least one base class, a class is rejected when it
\* does not declare `prefix` and accepted when it declares it; a class with
\* no base class is accepted.
Declares(attrs) == "prefix" \in DOMAIN attrs
Rejected == attempt.outcome = "NotImplementedError"
Accepted == attempt.outcome = "ok" /\ attempt.name \in DOMAIN classes
C10_DeclaringPrefixSuffices ==
    attempt.outcome # "none" =>
        /\ (attempt.bases # {} /\ ~Declares(attempt.attrs)) => Rejected
        /\ (attempt.bases # {} /\ Declares(attempt.attrs)) => Accepted
        /\ attempt.bases = {} => Accepted

\* C10 amended: with at least one base class, a class is rejected when it
\* does not declare `prefix` or declares it as NotImplemented, and accepted
\* when it declares any other prefix; a class with no base class is accepted.
C10_PrefixRequired ==
    attempt.outcome # "none" =>
        /\ (attempt.bases # {} /\ ~Declares(attempt.attrs)) => Rejected
        /\ (attempt.bases # {} /\ Declares(attempt.attrs)) =>
              IF attempt.attrs["prefix"] = "NotImplemented" THEN Rejected ELSE Accepted
        /\ attempt.bases = {} => Accepted
        /\ Rejected => attempt.name \notin DOMAIN classes
C10_Witness ==
    /\ Rejected
    /\ attempt.meta = "ABCRequirePrefixMeta"
    /\ attempt.bases # {} /\ ~Declares(attempt.attrs)
    /\ \E b \in attempt.bases : Declares(classes[b].attrs) /\ classes[b].bases = {}

====
